---------------------------- MODULE Spec2Model ----------------------------
(***************************************************************************)
(* Top-K tweet queries of latam-challenge: the streaming trackers          *)
(* (q1_memory.DateTracker, q3_memory.MentionTracker, q2_memory) and the    *)
(* batch functions (q1_time, q2_time, q3_time).                            *)
(*                                                                         *)
(* A collections.Counter is a dict, so it keeps its keys in insertion      *)
(* order; it is modelled as the sequence of its items, <<key, count>>.     *)
(* Dates, user names, mentions and emojis are small integers, ordered as   *)
(* the values they stand for are ordered.  The retention sizes, the        *)
(* cleanup period and the result size are scaled down from the defaults    *)
(* of the source (20, 100, 10000, 10) so that pruning happens on short     *)
(* streams.                                                                *)
(***************************************************************************)
EXTENDS Integers, Sequences, FiniteSets, TLC

(* ------------------------------ bounds -------------------------------- *)
\* longest stream of (date, user) records given to q1_memory
MaxTweets == 5
\* longest stream of one user's tweets over WideDates given to q1_memory
MaxWideTweets == 7
\* longest stream of texts given to q3_memory
MaxTexts == 3
\* longest stream of texts given to q2_memory
MaxEmojiTexts == 4
\* most rows of the data frame the batch functions read
MaxRows == 3
\* most lines of a source that holds malformed lines
MaxLines == 4
\* most calls of the top-K query on one tracker
MaxCalls == 2
\* most lines of the longer sources q2_memory reads
MaxLongLines == 6
\* most parser events of the member JsonTweetRepository reads
MaxEvents == 4

\* program constants, scaled down where the source's value is out of reach
\* size of the result list (10 in the source)
TopN == 2
\* texts per batch of batch_process_tweets (1000)
batch_size == 2
\* q2_memory truncates when tweets_processed is a multiple of this (10000)
progress_period == 4
\* emojis q2_memory keeps when it truncates (100)
emoji_keep == 2
\* least rows per chunk of q2_time (1000)
min_chunk_rows == 1
\* q2_time aims at n_cores * 2 chunks
q2_chunks_per_core == 2
\* q3_time cuts n_cores * 4 chunks (4)
q3_chunks_per_core == 1

Dates == 1..3
\* enough dates for a DateTracker(2) to prune
WideDates == 1..5
Users == 1..2
Tokens == 1..3
\* a text holds at most two tokens (mentions or emojis), in text order
Texts == {<<>>} \cup {<<a>> : a \in Tokens} \cup {<<a, b>> : a, b \in Tokens}
\* DateTracker(max_dates), MentionTracker(max_mentions, cleanup_frequency)
MaxDatesChoices == {1, 2}
MaxMentionsChoices == {1, 2}
CleanupFrequencyChoices == {1, 2}
\* multiprocessing.cpu_count() of the machine
CpuCounts == {2, 3}

None == 0
\* a content that is no str (a number, NaN for a missing column value);
\* 0 is no token, so no text equals it
NotAString == <<0>>
\* isinstance(text, str)
is_str(text) == text # NotAString
EmptyDict == [k \in {} |-> 0]

Min2(a, b) == IF a <= b THEN a ELSE b

(* --------------------------- collections.Counter ---------------------- *)
Keys(cnt) == {cnt[i][1] : i \in DOMAIN cnt}

\* Counter.__getitem__ / __missing__: 0 for an absent key, nothing inserted
Get(cnt, k) ==
    IF k \in Keys(cnt)
    THEN cnt[CHOOSE i \in DOMAIN cnt : cnt[i][1] = k][2]
    ELSE 0

\* counter[k] += n: an existing key keeps its place, a new key goes last
Inc(cnt, k, n) ==
    IF k \in Keys(cnt)
    THEN [i \in DOMAIN cnt |->
            IF cnt[i][1] = k THEN <<k, cnt[i][2] + n>> ELSE cnt[i]]
    ELSE Append(cnt, <<k, n>>)

\* Counter.update(iterable of keys)
RECURSIVE update(_, _)
update(cnt, elems) ==
    IF elems = <<>> THEN cnt
    ELSE update(Inc(cnt, Head(elems), 1), Tail(elems))

\* Counter.update(other Counter): other's items in other's order
RECURSIVE update_counter(_, _)
update_counter(cnt, other) ==
    IF other = <<>> THEN cnt
    ELSE update_counter(Inc(cnt, Head(other)[1], Head(other)[2]), Tail(other))

\* sorted(items, key=count, reverse=True) is stable: equal counts keep the
\* order they have in the dict
RECURSIVE InsertDesc(_, _)
InsertDesc(s, e) ==
    IF s = <<>> THEN <<e>>
    ELSE IF Head(s)[2] >= e[2] THEN <<Head(s)>> \o InsertDesc(Tail(s), e)
    ELSE <<e>> \o s

RECURSIVE SortedDesc(_)
SortedDesc(s) ==
    IF s = <<>> THEN <<>>
    ELSE InsertDesc(SortedDesc(SubSeq(s, 1, Len(s) - 1)), s[Len(s)])

\* heapq.nlargest(n, items, key=count) == sorted(..., reverse=True)[:n]
nlargest(n, items) == SubSeq(SortedDesc(items), 1, Min2(n, Len(items)))

\* Counter.most_common(n)
most_common(cnt, n) == nlargest(n, cnt)

MinCount(items) ==
    CHOOSE c \in {items[i][2] : i \in DOMAIN items} :
        \A j \in DOMAIN items : c <= items[j][2]

(* ------------------------- q1_memory.DateTracker ---------------------- *)
NewDateTracker(m) ==
    [date_counts |-> <<>>, current_user_counts |-> <<>>,
     top_users |-> EmptyDict, current_date |-> None, max_dates |-> m]

prune_threshold(t) == t.max_dates * 2

get_min_count(t) ==
    IF Len(t.date_counts) < t.max_dates THEN 0
    ELSE MinCount(most_common(t.date_counts, t.max_dates))

\* CloseCurrent with > for >= in the test against the minimum count
CloseCurrentStrict(t) ==
    IF t.current_date # None /\ t.current_user_counts # <<>>
       /\ Get(t.date_counts, t.current_date) > get_min_count(t)
    THEN [t EXCEPT !.top_users =
            (t.current_date :> most_common(t.current_user_counts, 1)[1][1])
            @@ t.top_users]
    ELSE t

\* the close of the open date, shared by add_tweet and get_top_results
CloseCurrent(t) ==
    IF t.current_date # None /\ t.current_user_counts # <<>>
       /\ Get(t.date_counts, t.current_date) >= get_min_count(t)
    THEN [t EXCEPT !.top_users =
            (t.current_date :> most_common(t.current_user_counts, 1)[1][1])
            @@ t.top_users]
    ELSE t

\* prune_data filtering date_counts alone, top_users left as it was
prune_data_counts(t) ==
    LET min_count == get_min_count(t)
        kept == SelectSeq(t.date_counts, LAMBDA e : e[2] >= min_count)
    IN [t EXCEPT !.date_counts = kept]

\* prune_data with <= for >= in the filter of date_counts
prune_data_inverted(t) ==
    LET min_count == get_min_count(t)
        kept == SelectSeq(t.date_counts, LAMBDA e : e[2] <= min_count)
    IN [t EXCEPT
          !.date_counts = kept,
          !.top_users = [d \in {d \in DOMAIN t.top_users :
                                   Get(kept, d) >= min_count}
                           |-> t.top_users[d]]]

prune_data(t) ==
    LET min_count == get_min_count(t)
        kept == SelectSeq(t.date_counts, LAMBDA e : e[2] >= min_count)
    IN [t EXCEPT
          !.date_counts = kept,
          !.top_users = [d \in {d \in DOMAIN t.top_users :
                                   Get(kept, d) >= min_count}
                           |-> t.top_users[d]]]

should_prune(t) == Len(t.date_counts) > prune_threshold(t)

\* AddCounted without current_user_counts.clear()
AddCountedNoClear(t, date, username) ==
    LET t1 == [t EXCEPT !.date_counts = Inc(t.date_counts, date, 1)]
        t2 == IF date # t1.current_date
              THEN [CloseCurrent(t1) EXCEPT !.current_date = date]
              ELSE t1
    IN [t2 EXCEPT !.current_user_counts =
                     Inc(t2.current_user_counts, username, 1)]

\* add_tweet up to the prune test
AddCounted(t, date, username) ==
    LET t1 == [t EXCEPT !.date_counts = Inc(t.date_counts, date, 1)]
        t2 == IF date # t1.current_date
              THEN [CloseCurrent(t1) EXCEPT !.current_user_counts = <<>>,
                                            !.current_date = date]
              ELSE t1
    IN [t2 EXCEPT !.current_user_counts =
                     Inc(t2.current_user_counts, username, 1)]

\* add_tweet carrying the user counts of the closed date into the next
add_tweet_carry(t, date, username) ==
    LET t3 == AddCountedNoClear(t, date, username)
    IN IF should_prune(t3) THEN prune_data(t3) ELSE t3

add_tweet(t, date, username) ==
    LET t3 == AddCounted(t, date, username)
    IN IF should_prune(t3) THEN prune_data(t3) ELSE t3

\* get_top_results: the tracker after the call and the returned list
TopResultsList(t, n) ==
    LET top_dates == most_common(t.date_counts, n)
        present == SelectSeq(top_dates, LAMBDA e : e[1] \in DOMAIN t.top_users)
    IN [i \in DOMAIN present |-> <<present[i][1], t.top_users[present[i][1]]>>]

\* get_top_results building its list before it records the open date
get_top_results_late(t, n) ==
    [tracker |-> CloseCurrent(t), result |-> TopResultsList(t, n)]

get_top_results(t, n) ==
    LET t1 == CloseCurrent(t)
    IN [tracker |-> t1, result |-> TopResultsList(t1, n)]

(* ------------------------ q3_memory.MentionTracker -------------------- *)
NewMentionTracker(m, f) ==
    [mention_counts |-> <<>>, max_mentions |-> m, cleanup_frequency |-> f,
     tweets_processed |-> 0, mentions_found |-> 0]

should_cleanup(t) ==
    /\ t.tweets_processed % t.cleanup_frequency = 0
    /\ Len(t.mention_counts) > t.max_mentions

\* cleanup_memory rebuilding the Counter from the kept keys alone
cleanup_memory_keys(t) ==
    LET kept == most_common(t.mention_counts, t.max_mentions)
    IN [t EXCEPT !.mention_counts = [i \in DOMAIN kept |-> <<kept[i][1], 1>>]]

cleanup_memory(t) ==
    [t EXCEPT !.mention_counts = most_common(t.mention_counts, t.max_mentions)]

\* process_tweet up to the cleanup test
MentionsCounted(t, text) ==
    [t EXCEPT !.mention_counts = update(t.mention_counts, text),
              !.mentions_found = t.mentions_found + Len(text),
              !.tweets_processed = t.tweets_processed + 1]

process_tweet(t, text) ==
    IF ~is_str(text) THEN t
    ELSE LET t1 == MentionsCounted(t, text)
         IN IF should_cleanup(t1) THEN cleanup_memory(t1) ELSE t1

get_top_mentions(t, n) == most_common(t.mention_counts, n)

(* ------------------------------ q2_memory ----------------------------- *)
RECURSIVE Flatten(_)
Flatten(texts) ==
    IF texts = <<>> THEN <<>> ELSE Head(texts) \o Flatten(Tail(texts))

NewEmojiState == [emoji_counts |-> <<>>, tweets_processed |-> 0, emojis_found |-> 0]

\* the body of the for-batch loop up to the progress test
BatchCounted(e, batch) ==
    [e EXCEPT !.emoji_counts = update(e.emoji_counts, Flatten(batch)),
              !.emojis_found = e.emojis_found + Len(Flatten(batch)),
              !.tweets_processed = e.tweets_processed + Len(batch)]

should_truncate(e) == e.tweets_processed % progress_period = 0

truncate(e) == [e EXCEPT !.emoji_counts = nlargest(emoji_keep, e.emoji_counts)]

process_batch(e, batch) ==
    LET e1 == BatchCounted(e, batch)
    IN IF should_truncate(e1) THEN truncate(e1) ELSE e1

q2_memory_result(e) ==
    IF e.emoji_counts = <<>> THEN <<>> ELSE nlargest(TopN, e.emoji_counts)

\* what batch_process_tweets can yield: batch_size texts, or fewer at the end
Batches(k) == [1..k -> Texts]

(* ------------------------ numpy / pandas helpers ---------------------- *)
\* np.array_split(rows, n): the first len % n sections hold one row more
array_split(rows, n) ==
    LET each == Len(rows) \div n
        extras == Len(rows) % n
        start(i) == (i - 1) * each + Min2(i - 1, extras)
        size(i) == each + (IF i <= extras THEN 1 ELSE 0)
    IN [i \in 1..n |-> SubSeq(rows, start(i) + 1, start(i) + size(i))]

\* the elements of a set of integers in ascending order
RECURSIVE Ascending(_)
Ascending(S) ==
    IF S = {} THEN <<>>
    ELSE LET lo == CHOOSE x \in S : \A y \in S : x <= y
         IN <<lo>> \o Ascending(S \ {lo})

RECURSIVE SumOf(_, _)
SumOf(counters, k) ==
    IF counters = <<>> THEN 0
    ELSE Get(Head(counters), k) + SumOf(Tail(counters), k)

\* pd.concat(series).groupby(level=0).sum(): one row per key, keys sorted
groupby_sum(counters) ==
    LET ks == Ascending(UNION {Keys(counters[i]) : i \in DOMAIN counters})
    IN [i \in DOMAIN ks |-> <<ks[i], SumOf(counters, ks[i])>>]

\* pd.Series(values).value_counts(): counts, largest first
value_counts(values) == SortedDesc(update(<<>>, values))

(* ------------------------------- q1_time ------------------------------ *)
TweetsOn(records, d) ==
    Cardinality({i \in DOMAIN records : records[i][1] = d})
TweetsOnBy(records, d, u) ==
    Cardinality({i \in DOMAIN records : records[i] = <<d, u>>})
DatesOf(records) == {records[i][1] : i \in DOMAIN records}

\* grouped.groupby('date')['count'].sum(): one row per date, dates sorted
date_count_series(records) ==
    LET ds == Ascending(DatesOf(records))
    IN [i \in DOMAIN ds |-> <<ds[i], TweetsOn(records, ds[i])>>]

\* the rows of one date sorted by count descending (stable, so by user
\* name among equal counts); groupby('date').first() takes the first
first_user(records, d) ==
    LET us == Ascending({u \in Users : TweetsOnBy(records, d, u) > 0})
        rows == [i \in DOMAIN us |-> <<us[i], TweetsOnBy(records, d, us[i])>>]
    IN SortedDesc(rows)[1][1]

q1_time(records) ==
    LET top_dates == nlargest(TopN, date_count_series(records))
        ds == Ascending(Keys(top_dates))
    IN [i \in DOMAIN ds |-> <<ds[i], first_user(records, ds[i])>>]

(* ------------------------------- q2_time ------------------------------ *)
process_chunk(texts) == update(<<>>, Flatten(SelectSeq(texts, is_str)))

q2_n_cores(cpu) == IF cpu - 1 > 1 THEN cpu - 1 ELSE 1

q2_chunks(rows, cpu) ==
    LET total_rows == Len(rows)
        per == total_rows \div (q2_n_cores(cpu) * q2_chunks_per_core)
        chunk_size == IF per > min_chunk_rows THEN per ELSE min_chunk_rows
        n_chunks == (total_rows + chunk_size - 1) \div chunk_size
    IN array_split(rows, n_chunks)

NewFold == [total_counter |-> <<>>, tweets_procesados |-> 0]

\* fold_future adding the counts of the chunk to total_counter twice
fold_future_twice(f, chunk, ok) ==
    IF ok
    THEN [total_counter |->
              update_counter(update_counter(f.total_counter, process_chunk(chunk)),
                             process_chunk(chunk)),
          tweets_procesados |-> f.tweets_procesados + Len(chunk)]
    ELSE f

\* the body of the as_completed loop for one future
fold_future(f, chunk, ok) ==
    IF ok
    THEN [total_counter |-> update_counter(f.total_counter, process_chunk(chunk)),
          tweets_procesados |-> f.tweets_procesados + Len(chunk)]
    ELSE f

q2_time_result(f) ==
    IF f.total_counter = <<>> THEN <<>> ELSE most_common(f.total_counter, TopN)

(* ------------------------------- q3_time ------------------------------ *)
q3_chunks(rows, cpu) == array_split(rows, cpu * q3_chunks_per_core)

process_chunk_parallel(chunk) == value_counts(Flatten(chunk))

q3_time_result(chunk_results_) == nlargest(TopN, groupby_sum(chunk_results_))

(* ------------------------------ exceptions ---------------------------- *)
\* the classes the functions raise and catch, each with its base class;
\* "FileNotFoundError" is the builtin, "exceptions.FileNotFoundError" the
\* class of src.utils.exceptions, which derives from TweetRepositoryError
base_class ==
    [c \in {"OSError", "ValueError", "KeyError", "TypeError", "AttributeError",
            "BadZipFile", "JSONError", "EmptyDataError", "TweetRepositoryError"}
        |-> "Exception"]
    @@ ("FileNotFoundError" :> "OSError")
    @@ [c \in {"JSONDecodeError", "ValidationError", "ParserError"}
          |-> "ValueError"]
    @@ [c \in {"exceptions.FileNotFoundError", "InvalidFileFormatError",
               "JsonParsingError"} |-> "TweetRepositoryError"]

\* isinstance(e, cls) for an exception of class e
RECURSIVE IsInstance(_, _)
IsInstance(e, cls) ==
    \/ e = cls
    \/ e # "Exception" /\ IsInstance(base_class[e], cls)

\* what an except clause does with the exception it catches: a bare raise,
\* a raise of another class, or neither (continue, return, pass)
Reraise == "raise"
Handled == "handled"

\* one except clause: the classes it names and what its body does
Clause(classes, does) == [catch |-> classes, does |-> does]

\* a try statement whose body raised e: the first clause that matches
\* decides; the value is the class that leaves the statement, or Handled
RECURSIVE except_clauses(_, _)
except_clauses(e, clauses) ==
    IF e = Handled \/ clauses = <<>> THEN e
    ELSE IF \E cls \in Head(clauses).catch : IsInstance(e, cls)
         THEN IF Head(clauses).does = Reraise THEN e ELSE Head(clauses).does
         ELSE except_clauses(e, Tail(clauses))

\* the try statements of the query functions, innermost first
q1m_line_try == <<Clause({"JSONDecodeError", "KeyError", "ValueError"}, Handled)>>
q1m_file_try == <<Clause({"Exception"}, "TweetRepositoryError")>>
q1m_outer_try == <<Clause({"Exception"}, "TweetRepositoryError")>>

q2m_line_try == <<Clause({"JSONDecodeError", "KeyError"}, Handled)>>
q2m_file_try ==
    <<Clause({"FileNotFoundError"}, Reraise),
      Clause({"BadZipFile"}, Reraise),
      Clause({"Exception"}, "TweetRepositoryError")>>
q2m_batch_try == <<Clause({"Exception"}, Handled)>>
q2m_outer_try == <<Clause({"Exception"}, "TweetRepositoryError")>>

q3m_line_try == <<Clause({"JSONDecodeError", "Exception"}, Handled)>>
q3m_file_try ==
    <<Clause({"FileNotFoundError", "BadZipFile"}, Reraise),
      Clause({"Exception"}, "TweetRepositoryError")>>
q3m_outer_try == <<Clause({"Exception"}, "TweetRepositoryError")>>

q1t_data_try == <<Clause({"AttributeError", "KeyError"}, "TweetRepositoryError")>>
q1t_inner_try ==
    <<Clause({"EmptyDataError"}, Handled),
      Clause({"Exception"}, "TweetRepositoryError")>>
q2t_inner_try ==
    <<Clause({"AttributeError"}, "TweetRepositoryError"),
      Clause({"Exception"}, "TweetRepositoryError")>>
\* the outer try of q1_time and of q2_time
time_outer_try ==
    <<Clause({"EmptyDataError"}, Handled),
      Clause({"ParserError"}, "TweetRepositoryError"),
      Clause({"FileNotFoundError"}, Reraise),
      Clause({"Exception"}, "TweetRepositoryError")>>
q3t_try == <<Clause({"Exception"}, "TweetRepositoryError")>>

\* the try statements, innermost first, around the place where a query
\* function opens its source (ZipFile(file_path), pd.read_json(file_path))
open_tries(q) ==
    CASE q = "q1_memory" -> <<q1m_file_try, q1m_outer_try>>
      [] q = "q2_memory" -> <<q2m_file_try, q2m_outer_try>>
      [] q = "q3_memory" -> <<q3m_file_try, q3m_outer_try>>
      [] q = "q1_time" -> <<time_outer_try>>
      [] q = "q2_time" -> <<time_outer_try>>
      [] q = "q3_time" -> <<q3t_try>>

\* an exception raised inside nested try statements, innermost first
RECURSIVE propagate(_, _)
propagate(e, tries) ==
    IF tries = <<>> THEN e
    ELSE propagate(except_clauses(e, Head(tries)), Tail(tries))

\* what the path names: an archive, nothing, or a file that is no archive
Files == {"ok", "missing", "corrupt"}
\* the paths get_tweets is given: _validate_file wants the suffix .zip
RepositoryFiles == Files \cup {"not_zip"}

\* ZipFile(path) and pd.read_json(path) on a path that is no archive
open_error(file) ==
    IF file = "missing" THEN "FileNotFoundError" ELSE "BadZipFile"

(* ------------------------------- state -------------------------------- *)
VARIABLES
    query,         \* the query function that is running
    pc,            \* where the function is; "done" returned, "failed" raised
    input,         \* the records read from the source so far
    dt,            \* the DateTracker of q1_memory
    mt,            \* the MentionTracker of q3_memory
    es,            \* emoji_counts and the counters of q2_memory
    topn,          \* the n the top-K query was called with (0 before)
    result,        \* the list returned
    lastPrune,     \* the counter before and after the last prune step, the
                   \* number of prune steps (n) and the number of records
                   \* processed when the last one ran (at)
    chunks,        \* the chunks handed to the workers
    pending,       \* the chunks whose result is not collected yet
    fold,          \* total_counter and tweets_procesados of q2_time
    chunk_results, \* the results q3_time has collected, in completion order
    lost,          \* the chunks whose worker raised
    file,          \* what file_path names
    raised,        \* the class of the exception that reached the caller
    lines,         \* the lines of the source read so far, malformed ones too
    current_obj,   \* the fields _process_json_stream has collected
    current_batch, \* the contents batch_process_tweets has not yielded yet
    calls          \* how often the top-K query of the tracker was called

vars == <<query, pc, input, dt, mt, es, topn, result, lastPrune,
          chunks, pending, fold, chunk_results, lost,
          file, raised, lines, current_obj, current_batch, calls>>

NoPrune == [before |-> <<>>, after |-> <<>>, m |-> 0, n |-> 0, at |-> 0]

StreamingQueries == {"q1_memory", "q2_memory", "q3_memory"}
BatchQueries == {"q1_time", "q2_time", "q3_time"}

NoError == "none"

InitQuery(q) ==
    /\ query = q
    /\ pc = "opening"
    /\ file \in IF q = "get_tweets" THEN RepositoryFiles ELSE Files
    /\ raised = NoError
    /\ lines = <<>>
    /\ current_obj = EmptyDict
    /\ current_batch = <<>>
    /\ calls = 0
    /\ input = <<>>
    /\ topn = 0
    /\ result = <<>>
    /\ lastPrune = NoPrune
    /\ dt \in IF q = "q1_memory"
              THEN {NewDateTracker(m) : m \in MaxDatesChoices}
              ELSE {NewDateTracker(1)}
    /\ mt \in IF q = "q3_memory"
              THEN {NewMentionTracker(m, f) :
                      m \in MaxMentionsChoices, f \in CleanupFrequencyChoices}
              ELSE {NewMentionTracker(1, 1)}
    /\ es = NewEmojiState
    /\ chunks = <<>>
    /\ pending = {}
    /\ fold = NewFold
    /\ chunk_results = <<>>
    /\ lost = {}

batchVars == <<chunks, pending, fold, chunk_results, lost>>
sourceVars == <<file, raised, lines, current_obj, current_batch>>
\* the same without raised
fileVars == <<file, lines, current_obj, current_batch>>

(* ------------------------------ the source ---------------------------- *)
\* the function opens its source: ZipFile(file_path) in the generators of
\* the memory functions, pd.read_json(file_path) in the time functions
Open ==
    /\ query \in StreamingQueries \cup BatchQueries
    /\ pc = "opening"
    /\ IF file = "ok"
       THEN /\ pc' = IF query \in StreamingQueries THEN "running" ELSE "reading"
            /\ raised' = raised
       ELSE /\ pc' = "failed"
            /\ raised' = propagate(open_error(file), open_tries(query))
    /\ UNCHANGED <<query, input, dt, mt, es, topn, result, lastPrune>>
    /\ UNCHANGED batchVars
    /\ UNCHANGED fileVars
    /\ UNCHANGED calls

(* ----------------------------- q1_memory ------------------------------ *)
\* one iteration of q1_memory's loop: tracker.add_tweet(date, username)
AddTweetOf(dates, users, longest) ==
    /\ query = "q1_memory" /\ pc = "running"
    /\ Len(input) < longest
    /\ \E date \in dates, username \in users :
         LET t3 == AddCounted(dt, date, username)
         IN /\ dt' = add_tweet(dt, date, username)
            /\ input' = Append(input, <<date, username>>)
            /\ lastPrune' =
                 IF should_prune(t3)
                 THEN [before |-> t3.date_counts, after |-> dt'.date_counts,
                       m |-> dt.max_dates, n |-> lastPrune.n + 1,
                       at |-> Len(input')]
                 ELSE lastPrune
    /\ UNCHANGED <<query, pc, mt, es, topn, result>>
    /\ UNCHANGED batchVars
    /\ UNCHANGED sourceVars
    /\ UNCHANGED calls

AddTweet == AddTweetOf(Dates, Users, MaxTweets)

\* the same step on longer streams of one user over more dates
AddTweetWide == AddTweetOf(WideDates, {1}, MaxWideTweets)

\* the source is exhausted: return tracker.get_top_results(n); n is kept
\* within max_dates, as the defaults (10 of 20) and the data model do
GetTopResults ==
    /\ query = "q1_memory" /\ pc = "running"
    /\ \E n \in 1..dt.max_dates :
         LET r == get_top_results(dt, n)
         IN /\ dt' = r.tracker
            /\ result' = r.result
            /\ topn' = n
    /\ pc' = "done"
    /\ UNCHANGED <<query, input, mt, es, lastPrune>>
    /\ UNCHANGED batchVars
    /\ UNCHANGED sourceVars
    /\ calls' = calls + 1

\* get_top_results(n) called once more, with no add_tweet in between
GetTopResultsAgain ==
    /\ query = "q1_memory" /\ pc = "done"
    /\ calls < MaxCalls
    /\ LET r == get_top_results(dt, topn)
       IN /\ dt' = r.tracker
          /\ result' = r.result
    /\ calls' = calls + 1
    /\ UNCHANGED <<query, pc, input, mt, es, topn, lastPrune>>
    /\ UNCHANGED batchVars
    /\ UNCHANGED sourceVars

(* ----------------------------- q3_memory ------------------------------ *)
\* one iteration of q3_memory's loop: tracker.process_tweet(text)
ProcessTweet ==
    /\ query = "q3_memory" /\ pc = "running"
    /\ Len(input) < MaxTexts
    /\ \E text \in Texts :
         LET t1 == MentionsCounted(mt, text)
         IN /\ mt' = process_tweet(mt, text)
            /\ input' = Append(input, text)
            /\ lastPrune' =
                 IF should_cleanup(t1)
                 THEN [before |-> t1.mention_counts,
                       after |-> mt'.mention_counts,
                       m |-> mt.max_mentions, n |-> lastPrune.n + 1,
                       at |-> Len(input')]
                 ELSE lastPrune
    /\ UNCHANGED <<query, pc, dt, es, topn, result>>
    /\ UNCHANGED batchVars
    /\ UNCHANGED sourceVars
    /\ UNCHANGED calls

\* the source is exhausted: [] without mentions, else get_top_mentions(n);
\* n is kept within max_mentions, as the defaults (10 of 100) do
GetTopMentions ==
    /\ query = "q3_memory" /\ pc = "running"
    /\ \E n \in 1..Min2(TopN, mt.max_mentions) :
         /\ result' = IF mt.mentions_found = 0 THEN <<>>
                      ELSE get_top_mentions(mt, n)
         /\ topn' = n
    /\ pc' = "done"
    /\ UNCHANGED <<query, input, dt, mt, es, lastPrune>>
    /\ UNCHANGED batchVars
    /\ UNCHANGED sourceVars
    /\ calls' = calls + 1

\* get_top_mentions(n) called once more, with no process_tweet in between
GetTopMentionsAgain ==
    /\ query = "q3_memory" /\ pc = "done"
    /\ calls < MaxCalls
    /\ result' = IF mt.mentions_found = 0 THEN <<>>
                 ELSE get_top_mentions(mt, topn)
    /\ calls' = calls + 1
    /\ UNCHANGED <<query, pc, input, dt, mt, es, topn, lastPrune>>
    /\ UNCHANGED batchVars
    /\ UNCHANGED sourceVars

(* ----------------------------- q2_memory ------------------------------ *)
\* one iteration of the for-batch loop; a batch shorter than batch_size is
\* the last one of the source
ProcessBatch ==
    /\ query = "q2_memory" /\ pc = "running"
    /\ \E k \in 1..Min2(batch_size, MaxEmojiTexts - es.tweets_processed) :
       \E batch \in Batches(k) :
         LET e1 == BatchCounted(es, batch)
         IN /\ es' = process_batch(es, batch)
            /\ input' = input \o batch
            /\ pc' = IF k < batch_size THEN "drained" ELSE "running"
            /\ lastPrune' =
                 IF should_truncate(e1)
                 THEN [before |-> e1.emoji_counts, after |-> es'.emoji_counts,
                       m |-> emoji_keep, n |-> lastPrune.n + 1,
                       at |-> Len(input')]
                 ELSE lastPrune
    /\ UNCHANGED <<query, dt, mt, topn, result>>
    /\ UNCHANGED batchVars
    /\ UNCHANGED sourceVars
    /\ UNCHANGED calls

\* the source is exhausted: [] without emojis, else nlargest(10, ...)
ReturnEmojis ==
    /\ query = "q2_memory" /\ pc \in {"running", "drained"}
    /\ result' = q2_memory_result(es)
    /\ topn' = TopN
    /\ pc' = "done"
    /\ UNCHANGED <<query, input, dt, mt, es, lastPrune>>
    /\ UNCHANGED batchVars
    /\ UNCHANGED sourceVars
    /\ UNCHANGED calls

(* ------------------------- the batch functions ------------------------ *)
\* pd.read_json: one more row of the data frame
ReadRow ==
    /\ query \in BatchQueries /\ pc = "reading"
    /\ Len(input) < MaxRows
    /\ \E row \in IF query = "q1_time" THEN Dates \X Users ELSE Texts :
         input' = Append(input, row)
    /\ UNCHANGED <<query, pc, dt, mt, es, topn, result, lastPrune>>
    /\ UNCHANGED batchVars
    /\ UNCHANGED sourceVars
    /\ UNCHANGED calls

\* q1_time and q2_time raise TweetRepositoryError for a missing column
\* inside their inner try; q3_time's df['content'] raises KeyError
no_columns_error(q) ==
    CASE q = "q1_time" ->
             propagate("TweetRepositoryError", <<q1t_inner_try, time_outer_try>>)
      [] q = "q2_time" ->
             propagate("TweetRepositoryError", <<q2t_inner_try, time_outer_try>>)
      [] q = "q3_time" -> propagate("KeyError", <<q3t_try>>)

\* a data frame without rows has no columns: the function raises
NoColumns ==
    /\ query \in BatchQueries /\ pc = "reading"
    /\ input = <<>>
    /\ pc' = "failed"
    /\ UNCHANGED <<query, input, dt, mt, es, topn, result, lastPrune>>
    /\ UNCHANGED batchVars
    /\ raised' = no_columns_error(query)
    /\ UNCHANGED fileVars
    /\ UNCHANGED calls

Q1Time ==
    /\ query = "q1_time" /\ pc = "reading"
    /\ input # <<>>
    /\ result' = q1_time(input)
    /\ topn' = TopN
    /\ pc' = "done"
    /\ UNCHANGED <<query, input, dt, mt, es, lastPrune>>
    /\ UNCHANGED batchVars
    /\ UNCHANGED sourceVars
    /\ UNCHANGED calls

\* the chunks are cut and one future per chunk is submitted
Submit ==
    /\ query \in {"q2_time", "q3_time"} /\ pc = "reading"
    /\ input # <<>>
    /\ \E cpu \in CpuCounts :
         chunks' = IF query = "q2_time" THEN q2_chunks(input, cpu)
                   ELSE q3_chunks(input, cpu)
    /\ pending' = DOMAIN chunks'
    /\ pc' = "folding"
    /\ UNCHANGED <<query, input, dt, mt, es, topn, result, lastPrune,
                   fold, chunk_results, lost>>
    /\ UNCHANGED sourceVars
    /\ UNCHANGED calls

\* as_completed yields the future of chunk i; its result() returns or raises
Q2FutureDone ==
    /\ query = "q2_time" /\ pc = "folding"
    /\ \E i \in pending, ok \in BOOLEAN :
         /\ fold' = fold_future(fold, chunks[i], ok)
         /\ lost' = IF ok THEN lost ELSE lost \cup {i}
         /\ pending' = pending \ {i}
    /\ UNCHANGED <<query, pc, input, dt, mt, es, topn, result, lastPrune,
                   chunks, chunk_results>>
    /\ UNCHANGED sourceVars
    /\ UNCHANGED calls

Q2TimeReturn ==
    /\ query = "q2_time" /\ pc = "folding"
    /\ pending = {}
    /\ result' = q2_time_result(fold)
    /\ topn' = TopN
    /\ pc' = "done"
    /\ UNCHANGED <<query, input, dt, mt, es, lastPrune>>
    /\ UNCHANGED batchVars
    /\ UNCHANGED sourceVars
    /\ UNCHANGED calls

\* imap_unordered yields the result of chunk i
Q3ChunkDone ==
    /\ query = "q3_time" /\ pc = "folding"
    /\ \E i \in pending :
         /\ chunk_results' = Append(chunk_results, process_chunk_parallel(chunks[i]))
         /\ pending' = pending \ {i}
    /\ UNCHANGED <<query, pc, input, dt, mt, es, topn, result, lastPrune,
                   chunks, fold, lost>>
    /\ UNCHANGED sourceVars
    /\ UNCHANGED calls

\* imap_unordered re-raises the error of chunk i: q3_time raises
Q3ChunkRaises ==
    /\ query = "q3_time" /\ pc = "folding"
    /\ \E i \in pending :
         /\ lost' = lost \cup {i}
         /\ pending' = pending \ {i}
    /\ pc' = "failed"
    /\ UNCHANGED <<query, input, dt, mt, es, topn, result, lastPrune,
                   chunks, fold, chunk_results>>
    /\ raised' = propagate("Exception", <<q3t_try>>)
    /\ UNCHANGED fileVars
    /\ UNCHANGED calls

Q3TimeReturn ==
    /\ query = "q3_time" /\ pc = "folding"
    /\ pending = {}
    /\ result' = q3_time_result(chunk_results)
    /\ topn' = TopN
    /\ pc' = "done"
    /\ UNCHANGED <<query, input, dt, mt, es, lastPrune>>
    /\ UNCHANGED batchVars
    /\ UNCHANGED sourceVars
    /\ UNCHANGED calls

(* ------------------------- the lines of the source -------------------- *)
\* a line of the JSON-lines member: a tweet, or a line from which the
\* generator cannot take its fields: no JSON at all, a JSON object without
\* the field, a field that is a number instead of a string, JSON that is
\* no object (a list)
Malformed == {"bad_json", "no_key", "not_string", "not_object"}
Line(kind, data) == [kind |-> kind, data |-> data]
LineDates == 1..2
LineTexts == {<<>>, <<1>>, <<2>>}
DateLines ==
    {Line("tweet", <<d, u>>) : d \in LineDates, u \in Users}
        \cup {Line(k, <<>>) : k \in Malformed}
ContentLines ==
    {Line("tweet", t) : t \in LineTexts} \cup {Line(k, <<>>) : k \in Malformed}

\* q1_memory.process_tweets: json.loads(line), tweet['date'].replace(...),
\* datetime.fromisoformat, tweet['user']['username']
date_line_error(line) ==
    CASE line.kind = "tweet" -> NoError
      [] line.kind = "bad_json" -> "JSONDecodeError"
      [] line.kind = "no_key" -> "KeyError"
      [] line.kind = "not_string" -> "AttributeError"
      [] line.kind = "not_object" -> "TypeError"

\* json.loads(line), tweet.get('content') of q2_memory and q3_memory
content_line_error(line) ==
    CASE line.kind = "bad_json" -> "JSONDecodeError"
      [] line.kind = "not_object" -> "AttributeError"
      [] OTHER -> NoError

\* if content := tweet.get('content'): a missing content is None
has_content(line) == line.kind \in {"tweet", "not_string"}
content_of(line) == IF line.kind = "tweet" THEN line.data ELSE NotAString

\* an error raised while a line is read: Handled when the try around the
\* line catches it, else the class that leaves the query function
line_outcome(e, tries) == IF e = NoError THEN Handled ELSE propagate(e, tries)

\* one line of process_tweets and, for a tweet, one iteration of q1_memory
Q1ReadLine ==
    /\ query = "q1_memory" /\ pc = "running"
    /\ Len(lines) < MaxLines
    /\ \E line \in DateLines :
         LET out == line_outcome(date_line_error(line),
                                 <<q1m_line_try, q1m_file_try, q1m_outer_try>>)
             t3 == AddCounted(dt, line.data[1], line.data[2])
         IN /\ lines' = Append(lines, line)
            /\ IF line.kind = "tweet"
               THEN /\ dt' = add_tweet(dt, line.data[1], line.data[2])
                    /\ input' = Append(input, line.data)
                    /\ lastPrune' =
                         IF should_prune(t3)
                         THEN [before |-> t3.date_counts,
                               after |-> dt'.date_counts,
                               m |-> dt.max_dates, n |-> lastPrune.n + 1,
                       at |-> Len(input')]
                         ELSE lastPrune
                    /\ UNCHANGED <<pc, raised>>
               ELSE /\ pc' = IF out = Handled THEN pc ELSE "failed"
                    /\ raised' = IF out = Handled THEN raised ELSE out
                    /\ UNCHANGED <<dt, input, lastPrune>>
    /\ UNCHANGED <<query, mt, es, topn, result, file, current_obj, current_batch>>
    /\ UNCHANGED batchVars
    /\ UNCHANGED calls

\* one line of process_tweets and, for a content, one iteration of q3_memory
Q3ReadLine ==
    /\ query = "q3_memory" /\ pc = "running"
    /\ Len(lines) < MaxLines
    /\ \E line \in ContentLines :
         LET out == line_outcome(content_line_error(line),
                                 <<q3m_line_try, q3m_file_try, q3m_outer_try>>)
             yielded == out = Handled /\ has_content(line)
             t1 == MentionsCounted(mt, content_of(line))
         IN /\ lines' = Append(lines, line)
            /\ pc' = IF out = Handled THEN pc ELSE "failed"
            /\ raised' = IF out = Handled THEN raised ELSE out
            /\ mt' = IF yielded THEN process_tweet(mt, content_of(line)) ELSE mt
            /\ input' = IF yielded /\ is_str(content_of(line))
                        THEN Append(input, content_of(line)) ELSE input
            /\ lastPrune' =
                 IF yielded /\ is_str(content_of(line)) /\ should_cleanup(t1)
                 THEN [before |-> t1.mention_counts,
                       after |-> mt'.mention_counts,
                       m |-> mt.max_mentions, n |-> lastPrune.n + 1,
                       at |-> Len(input')]
                 ELSE lastPrune
    /\ UNCHANGED <<query, dt, es, topn, result, file, current_obj, current_batch>>
    /\ UNCHANGED batchVars
    /\ UNCHANGED calls

\* the index of the first text of a batch that extract_emojis cannot iterate
\* (0 when there is none)
first_not_str(batch) ==
    IF \A i \in DOMAIN batch : is_str(batch[i]) THEN 0
    ELSE CHOOSE i \in DOMAIN batch :
            /\ ~is_str(batch[i])
            /\ \A j \in 1..(i - 1) : is_str(batch[j])

\* the body of q2_memory's for-batch loop on a batch that may hold a
\* content that is no string: extract_emojis raises TypeError there, the
\* try around the batch catches it and the loop goes on to the next batch
process_batch_try(e, batch) ==
    LET bad == first_not_str(batch)
    IN IF bad = 0 THEN process_batch(e, batch)
       ELSE BatchCounted(e, SubSeq(batch, 1, bad - 1))

\* one line of batch_process_tweets; a full current_batch is yielded and
\* q2_memory's loop body runs on it
Q2ReadLineOf(content_lines, longest) ==
    /\ query = "q2_memory" /\ pc = "running"
    /\ Len(lines) < longest
    /\ \E line \in content_lines :
         LET out == line_outcome(content_line_error(line),
                                 <<q2m_line_try, q2m_file_try, q2m_outer_try>>)
             batch == IF out = Handled /\ has_content(line)
                      THEN Append(current_batch, content_of(line))
                      ELSE current_batch
             full == Len(batch) >= batch_size
             e1 == BatchCounted(es, batch)
         IN /\ lines' = Append(lines, line)
            /\ pc' = IF out = Handled THEN pc ELSE "failed"
            /\ raised' = IF out = Handled THEN raised ELSE out
            /\ current_batch' = IF full THEN <<>> ELSE batch
            /\ es' = IF full THEN process_batch_try(es, batch) ELSE es
            /\ input' = IF full THEN input \o SelectSeq(batch, is_str) ELSE input
            /\ lastPrune' =
                 IF full /\ first_not_str(batch) = 0 /\ should_truncate(e1)
                 THEN [before |-> e1.emoji_counts, after |-> es'.emoji_counts,
                       m |-> emoji_keep, n |-> lastPrune.n + 1,
                       at |-> Len(input')]
                 ELSE lastPrune
    /\ UNCHANGED <<query, dt, mt, topn, result, file, current_obj>>
    /\ UNCHANGED batchVars
    /\ UNCHANGED calls

Q2ReadLine == Q2ReadLineOf(ContentLines, MaxLines)

\* the same step on longer sources of fewer kinds of lines: tweets with
\* one emoji and tweets whose content is no string
ProgressLines ==
    {Line("tweet", <<1>>), Line("tweet", <<2>>), Line("not_string", <<>>)}
Q2ReadLineLong == Q2ReadLineOf(ProgressLines, MaxLongLines)

\* the member is exhausted: the last, partial batch is yielded and
\* processed, then q2_memory returns
Q2EndOfLines ==
    /\ query = "q2_memory" /\ pc = "running"
    /\ input' = input \o SelectSeq(current_batch, is_str)
    /\ LET e1 == BatchCounted(es, current_batch)
       IN /\ es' = IF current_batch = <<>> THEN es
                   ELSE process_batch_try(es, current_batch)
          /\ lastPrune' =
               IF current_batch # <<>> /\ first_not_str(current_batch) = 0
                  /\ should_truncate(e1)
               THEN [before |-> e1.emoji_counts, after |-> es'.emoji_counts,
                     m |-> emoji_keep, n |-> lastPrune.n + 1,
                       at |-> Len(input')]
               ELSE lastPrune
    /\ current_batch' = <<>>
    /\ result' = q2_memory_result(es')
    /\ topn' = TopN
    /\ pc' = "done"
    /\ UNCHANGED <<query, dt, mt, file, raised, lines, current_obj>>
    /\ UNCHANGED batchVars
    /\ UNCHANGED calls

\* pd.read_json: one more row of q2_time's data frame; the content of a row
\* is a string or, for a record without content, NaN
ReadContentRow ==
    /\ query = "q2_time" /\ pc = "reading"
    /\ Len(input) < MaxRows
    /\ \E row \in LineTexts \cup {NotAString} : input' = Append(input, row)
    /\ UNCHANGED <<query, pc, dt, mt, es, topn, result, lastPrune>>
    /\ UNCHANGED batchVars
    /\ UNCHANGED sourceVars
    /\ UNCHANGED calls

(* ------------------ tweet_repository.JsonTweetRepository -------------- *)
\* what ijson.parse yields for the member, one event at a time: a field of
\* a record with its value, another event (start_map, end_array, ...), or
\* text that is no JSON, on which the parser raises ijson.JSONError
BadDate == 0
Event(field, value) == [field |-> field, value |-> value]
Events ==
    {Event("user_name", u) : u \in Users}
        \cup {Event("created_at", d) : d \in LineDates \cup {BadDate}}
        \cup {Event("text", t) : t \in LineTexts}
        \cup {Event("other", 0), Event("json_error", 0)}

\* JsonParser.parse_date: datetime.utcnow() for a string that is no date
UtcNow == 9
parse_date(value) == IF value \in LineDates THEN value ELSE UtcNow

\* the fields class Tweet requires and the methods it defines
TweetFields == {"user_name", "created_at", "text"}
TweetMethods == {"extract_username", "extract_text", "__str__"}
\* class Config: frozen = True
tweet_frozen == TRUE

create_tweet_try == <<Clause({"Exception"}, "JsonParsingError")>>
process_json_stream_try == <<Clause({"JSONError"}, "JsonParsingError")>>
\* the name FileNotFoundError in tweet_repository.py is the class imported
\* from src.utils.exceptions
get_tweets_try ==
    <<Clause({"exceptions.FileNotFoundError"}, "exceptions.FileNotFoundError"),
      Clause({"Exception"}, "TweetRepositoryError")>>

\* what the body of create_tweet raises: Tweet(**data) validates the
\* fields, tweet.extract_mentions is looked up on the model, and the
\* result is assigned to the attribute mentions of the frozen model
create_tweet_raises(data) ==
    IF ~(TweetFields \subseteq DOMAIN data) THEN "ValidationError"
    ELSE IF "extract_mentions" \notin TweetMethods THEN "AttributeError"
    ELSE IF tweet_frozen THEN "ValidationError"
    ELSE NoError

\* JsonParser.create_tweet: the class it raises, or NoError when it returns
create_tweet_error(data) ==
    IF create_tweet_raises(data) = NoError THEN NoError
    ELSE except_clauses(create_tweet_raises(data), create_tweet_try)

\* the Tweet create_tweet returns
create_tweet(data) ==
    [username |-> data["user_name"], created_at |-> data["created_at"],
     text |-> data["text"], mentions |-> data["text"]]

\* get_tweets up to the first event: _validate_file, ZipFile(file_path)
RepoOpen ==
    /\ query = "get_tweets" /\ pc = "opening"
    /\ IF file = "ok"
       THEN /\ pc' = "streaming"
            /\ raised' = raised
       ELSE /\ pc' = "failed"
            /\ raised' = IF file = "not_zip" THEN "InvalidFileFormatError"
                         ELSE propagate(open_error(file), <<get_tweets_try>>)
    /\ UNCHANGED <<query, input, dt, mt, es, topn, result, lastPrune, calls>>
    /\ UNCHANGED batchVars
    /\ UNCHANGED fileVars

\* one event of the loop of _process_json_stream; a text event completes a
\* record: create_tweet runs and its Tweet is yielded to the caller
RepoEvent ==
    /\ query = "get_tweets" /\ pc = "streaming"
    /\ Len(input) < MaxEvents
    /\ \E ev \in Events :
         LET obj == CASE ev.field = "user_name" ->
                             ("user_name" :> ev.value) @@ current_obj
                      [] ev.field = "created_at" ->
                             ("created_at" :> parse_date(ev.value)) @@ current_obj
                      [] ev.field = "text" -> ("text" :> ev.value) @@ current_obj
                      [] OTHER -> current_obj
             err == CASE ev.field = "json_error" ->
                             propagate("JSONError",
                                       <<process_json_stream_try, get_tweets_try>>)
                      [] ev.field = "text" /\ create_tweet_error(obj) # NoError ->
                             propagate(create_tweet_error(obj),
                                       <<process_json_stream_try, get_tweets_try>>)
                      [] OTHER -> NoError
         IN /\ input' = Append(input, ev)
            /\ current_obj' = IF ev.field = "text" THEN EmptyDict ELSE obj
            /\ result' = IF ev.field = "text" /\ err = NoError
                         THEN Append(result, create_tweet(obj)) ELSE result
            /\ raised' = IF err = NoError THEN raised ELSE err
            /\ pc' = IF err = NoError THEN pc ELSE "failed"
    /\ UNCHANGED <<query, dt, mt, es, topn, lastPrune, calls>>
    /\ UNCHANGED batchVars
    /\ UNCHANGED <<file, lines, current_batch>>

\* the parser has no more events: the generator ends
RepoEnd ==
    /\ query = "get_tweets" /\ pc = "streaming"
    /\ pc' = "done"
    /\ UNCHANGED <<query, input, dt, mt, es, topn, result, lastPrune, calls>>
    /\ UNCHANGED batchVars
    /\ UNCHANGED sourceVars

(* --------------------------- specifications --------------------------- *)
NextStreaming ==
    \/ Open
    \/ AddTweet
    \/ GetTopResults
    \/ GetTopResultsAgain
    \/ ProcessTweet
    \/ GetTopMentions
    \/ GetTopMentionsAgain
    \/ ProcessBatch
    \/ ReturnEmojis

NextBatch ==
    \/ Open
    \/ ReadRow
    \/ NoColumns
    \/ Q1Time
    \/ Submit
    \/ Q2FutureDone
    \/ Q2TimeReturn
    \/ Q3ChunkDone
    \/ Q3ChunkRaises
    \/ Q3TimeReturn

NextPrune ==
    \/ Open
    \/ AddTweetWide
    \/ GetTopResults
    \/ ProcessTweet
    \/ GetTopMentions

InitStreaming == \E q \in StreamingQueries : InitQuery(q)
InitPrune == \E q \in {"q1_memory", "q3_memory"} : InitQuery(q)
InitBatch == \E q \in BatchQueries : InitQuery(q)

\* the memory-optimised functions
SpecStreaming == InitStreaming /\ [][NextStreaming]_vars
\* the two trackers on streams long enough for every retention size to prune
SpecPrune == InitPrune /\ [][NextPrune]_vars
\* the time-optimised functions
SpecBatch == InitBatch /\ [][NextBatch]_vars

\* the functions that skip records, on sources with malformed lines
NextLines ==
    \/ Open
    \/ Q1ReadLine
    \/ GetTopResults
    \/ Q2ReadLine
    \/ Q2EndOfLines
    \/ Q3ReadLine
    \/ GetTopMentions
    \/ ReadContentRow
    \/ NoColumns
    \/ Submit
    \/ Q2FutureDone
    \/ Q2TimeReturn

InitLines == \E q \in StreamingQueries \cup {"q2_time"} : InitQuery(q)
SpecLines == InitLines /\ [][NextLines]_vars

\* q2_memory and q3_memory on sources long enough to pass the progress
\* test of q2_memory more than once
NextProgress ==
    \/ Open
    \/ Q2ReadLineLong
    \/ Q2EndOfLines
    \/ Q3ReadLine
    \/ GetTopMentions

InitProgress == \E q \in {"q2_memory", "q3_memory"} : InitQuery(q)
SpecProgress == InitProgress /\ [][NextProgress]_vars

\* JsonTweetRepository.get_tweets
NextRepository ==
    \/ RepoOpen
    \/ RepoEvent
    \/ RepoEnd

InitRepository == InitQuery("get_tweets")
SpecRepository == InitRepository /\ [][NextRepository]_vars

Init == InitStreaming \/ InitBatch
Next == NextStreaming \/ NextBatch
Spec == Init /\ [][Next]_vars

(* ======================= properties of the queries ==================== *)
ResultKeys == {result[i][1] : i \in DOMAIN result}
Returned(q) == query = q /\ pc = "done"

\* the count the result orders a key by: the tweets of the date for q1,
\* the count returned with the key for q2 and q3
CountOfEntry(e) ==
    IF query \in {"q1_memory", "q1_time"} THEN TweetsOn(input, e[1]) ELSE e[2]

\* C1: every query function returns its list ordered by count descending:
\* of two consecutive entries the earlier key has a count >= the later's.
C1_ResultCountDescending ==
    pc = "done" =>
        \A i \in 1..(Len(result) - 1) :
            CountOfEntry(result[i]) >= CountOfEntry(result[i + 1])

\* the count a streaming tracker holds for a key of its result
TrackedCount(e) ==
    IF query = "q1_memory" THEN Get(dt.date_counts, e[1]) ELSE e[2]

\* C2: topN breaks ties by key ascending: two keys with equal counts
\* appear in the result of a streaming tracker in ascending key order.
C2_TiesByKeyAscending ==
    (pc = "done" /\ query \in StreamingQueries) =>
        \A i, j \in DOMAIN result :
            (i < j /\ TrackedCount(result[i]) = TrackedCount(result[j]))
                => result[i][1] < result[j][1]

\* the batch function of a streaming query on the same records, its chunks
\* folded in the order they were submitted and no worker failing
RECURSIVE FoldInOrder(_, _)
FoldInOrder(f, cs) ==
    IF cs = <<>> THEN f
    ELSE FoldInOrder(fold_future(f, Head(cs), TRUE), Tail(cs))

Q2TimeOf(rows, cpu) == q2_time_result(FoldInOrder(NewFold, q2_chunks(rows, cpu)))
Q3TimeOf(rows, cpu) ==
    LET cs == q3_chunks(rows, cpu)
    IN q3_time_result([i \in DOMAIN cs |-> process_chunk_parallel(cs[i])])

BatchResultOf(rows, cpu) ==
    CASE query = "q1_memory" -> q1_time(rows)
      [] query = "q2_memory" -> Q2TimeOf(rows, cpu)
      [] query = "q3_memory" -> Q3TimeOf(rows, cpu)

\* the records hold fewer distinct keys than the tracker prunes at
BelowPruning ==
    CASE query = "q1_memory" ->
             Cardinality(DatesOf(input)) <= prune_threshold(dt)
      [] query = "q2_memory" ->
             Cardinality(Keys(update(<<>>, Flatten(input)))) <= emoji_keep
      [] query = "q3_memory" ->
             Cardinality(Keys(update(<<>>, Flatten(input)))) <= mt.max_mentions

\* C3: when pruning never triggers, the streaming function returns the
\* list its batch function returns for the same records, order included.
C3_StreamingEqualsBatch ==
    (pc = "done" /\ query \in StreamingQueries /\ input # <<>>
        /\ topn = TopN /\ BelowPruning)
        => \A cpu \in CpuCounts : result = BatchResultOf(input, cpu)

\* the top of the whole input reduced as one chunk
OneChunkResult ==
    IF query = "q2_time"
    THEN q2_time_result(fold_future(NewFold, input, TRUE))
    ELSE q3_time_result(<<process_chunk_parallel(input)>>)

\* C4: whatever the chunk boundaries and the order in which the chunk
\* results are folded, the batch function returns the top list (members
\* and order) of the whole input reduced as one chunk.
C4_BatchOrderInvariant ==
    (pc = "done" /\ query \in {"q2_time", "q3_time"} /\ lost = {})
        => result = OneChunkResult

\* C5: when the reduction of a chunk raised, the batch function does not
\* return a result list.
C5_ChunkFailureIsFatal ==
    (query \in {"q2_time", "q3_time"} /\ lost # {}) => pc # "done"

\* C6: after a prune step the tracker holds at most M keys.
C6_PruneBoundsKeys ==
    lastPrune.n > 0 => Len(lastPrune.after) <= lastPrune.m

Occurrences(k) ==
    IF query = "q1_memory" THEN TweetsOn(input, k)
    ELSE Cardinality({i \in DOMAIN Flatten(input) : Flatten(input)[i] = k})

InputKeys ==
    IF query = "q1_memory" THEN DatesOf(input)
    ELSE {Flatten(input)[i] : i \in DOMAIN Flatten(input)}

\* the occurrences of all keys in the input so far
AllOccurrences ==
    IF query = "q1_memory" THEN Len(input) ELSE Len(Flatten(input))

TrackerCounts == IF query = "q1_memory" THEN dt.date_counts ELSE mt.mention_counts

\* C7: a key that occurs in the input so far more often than all other
\* keys together is tracked, and is the first of topN(1).
C7_DominantKeySurvives ==
    query \in {"q1_memory", "q3_memory"} =>
        \A k \in InputKeys :
            Occurrences(k) > AllOccurrences - Occurrences(k)
                => /\ k \in Keys(TrackerCounts)
                   /\ most_common(TrackerCounts, 1)[1][1] = k

\* the m-th largest count of a counter (0 when it has fewer than m keys)
AtLeast(cnt, c) == Cardinality({i \in DOMAIN cnt : cnt[i][2] >= c})
MthLargest(cnt, m) ==
    IF Len(cnt) < m THEN 0
    ELSE CHOOSE c \in {cnt[i][2] : i \in DOMAIN cnt} :
            /\ AtLeast(cnt, c) >= m
            /\ \A i \in DOMAIN cnt : cnt[i][2] > c => AtLeast(cnt, cnt[i][2]) < m

PrunedKeys == Keys(lastPrune.before) \ Keys(lastPrune.after)

\* C8: a prune step of DateTracker or MentionTracker removes no key whose
\* count is greater than the M-th largest count at the time of the prune.
C8_PruneKeepsLargerThanMth ==
    query \in {"q1_memory", "q3_memory"} =>
        \A k \in PrunedKeys :
            Get(lastPrune.before, k) <= MthLargest(lastPrune.before, lastPrune.m)

\* a prune step of a DateTracker(2) has removed dates
C8_Witness ==
    /\ query = "q1_memory" /\ lastPrune.m = 2
    /\ PrunedKeys # {}

\* the records come grouped by date: a date never comes back
Grouped(records) ==
    \A i, j, k \in DOMAIN records :
        (i < j /\ j < k /\ records[i][1] = records[k][1])
            => records[j][1] = records[i][1]

\* C9: for records grouped by date and no prune step, get_top_results(n)
\* returns the n dates with the most tweets (all dates when there are
\* fewer), each with a user who has the most tweets on that date.
C9_NestedGrouping ==
    (Returned("q1_memory") /\ Grouped(input) /\ lastPrune.n = 0) =>
        /\ Len(result) = Min2(topn, Cardinality(DatesOf(input)))
        /\ \A i, j \in DOMAIN result : i # j => result[i][1] # result[j][1]
        /\ \A i \in DOMAIN result :
             /\ result[i][1] \in DatesOf(input)
             /\ \A d \in DatesOf(input) \ ResultKeys :
                  TweetsOn(input, result[i][1]) >= TweetsOn(input, d)
             /\ \A u \in Users :
                  TweetsOnBy(input, result[i][1], result[i][2])
                      >= TweetsOnBy(input, result[i][1], u)

\* the grouped records of the nested-grouping example and their result
C9_Witness ==
    /\ Returned("q1_memory")
    /\ input = << <<1, 1>>, <<1, 1>>, <<1, 2>>, <<2, 2>> >>
    /\ result = << <<1, 1>>, <<2, 2>> >>

\* C10: every date among the n most common of date_counts when
\* get_top_results(n) is called is in the list it returns.
C10_NoTopDateDropped ==
    Returned("q1_memory") =>
        \A i \in DOMAIN most_common(dt.date_counts, topn) :
            most_common(dt.date_counts, topn)[i][1] \in ResultKeys

\* get_top_results has returned, after a prune step, while a counted date
\* has no best user: its group was closed without the user being recorded
C10_Witness ==
    /\ Returned("q1_memory") /\ lastPrune.n > 0
    /\ \E d \in Keys(dt.date_counts) : d \notin DOMAIN dt.top_users

QueryFunctions == StreamingQueries \cup BatchQueries

\* C11: on a source with zero records each of the six query functions
\* returns the empty list and raises no error.
C11_EmptySourceReturnsEmpty ==
    (query \in QueryFunctions /\ file = "ok" /\ lines = <<>> /\ input = <<>>
        /\ pc \in {"done", "failed"})
        => (pc = "done" /\ result = <<>> /\ raised = NoError)

\* C13: a source that cannot be opened (file missing, archive corrupt)
\* makes the query function raise, and the exception that reaches the
\* caller has the class the open raised.
C13_SourceErrorUnchanged ==
    (query \in QueryFunctions /\ file # "ok") =>
        /\ pc \in {"opening", "failed"}
        /\ pc = "failed" => raised = open_error(file)


\* the keys of the records of the source from which a key can be taken:
\* the dates of the tweet lines, the tokens of the contents that are strings
ValidLines == SelectSeq(lines, LAMBDA l : l.kind = "tweet")
ValidKeys ==
    CASE query = "q1_memory" -> [i \in DOMAIN ValidLines |-> ValidLines[i].data[1]]
      [] query = "q2_time" -> Flatten(SelectSeq(input, is_str))
      [] OTHER -> Flatten([i \in DOMAIN ValidLines |-> ValidLines[i].data])

ValidOccurrences(k) == Cardinality({i \in DOMAIN ValidKeys : ValidKeys[i] = k})

\* the counter the function holds when it ends
FinalCounts ==
    CASE query = "q1_memory" -> dt.date_counts
      [] query = "q2_memory" -> es.emoji_counts
      [] query = "q3_memory" -> mt.mention_counts
      [] query = "q2_time" -> fold.total_counter

\* C12: a record from which no key can be taken is skipped alone: with no
\* prune step and no failed chunk, the function ends without raising and
\* its counts are the counts over exactly the valid records of the source.
C12_MalformedSkipped ==
    (query \in StreamingQueries \cup {"q2_time"} /\ file = "ok"
        /\ pc \in {"done", "failed"} /\ lastPrune.n = 0 /\ lost = {}
        /\ (query = "q2_time" => input # <<>>))
        => /\ pc = "done"
           /\ \A k \in Keys(FinalCounts) \cup {ValidKeys[i] : i \in DOMAIN ValidKeys} :
                Get(FinalCounts, k) = ValidOccurrences(k)


\* C14: once the stream is exhausted, calling the top-K query of the
\* tracker again, with the same n and no insert in between, returns the
\* list the call before returned.
C14_TopKIdempotent ==
    [][(pc = "done" /\ query \in {"q1_memory", "q3_memory"}) => result' = result]_vars

\* the top-K query was called a second time on a DateTracker that pruned
\* and holds a date without a best user
C14_Witness ==
    /\ Returned("q1_memory") /\ calls = 2
    /\ lastPrune.n > 0 /\ result # <<>>
    /\ \E d \in Keys(dt.date_counts) : d \notin DOMAIN dt.top_users


\* the counter a streaming function counts its keys in
StreamCounts ==
    CASE query = "q1_memory" -> dt.date_counts
      [] query = "q2_memory" -> es.emoji_counts
      [] query = "q3_memory" -> mt.mention_counts
      [] OTHER -> <<>>

\* C15 as claimed: in every step of a streaming pass the count of every
\* key, taken as 0 when the key is absent, is >= its count before the step.
C15_CountNeverDecreases ==
    [][\A k \in Keys(StreamCounts) :
          Get(StreamCounts', k) >= Get(StreamCounts, k)]_vars

\* C15 as amended: in every step of a streaming pass the count of every
\* key that is tracked before and after the step is >= its count before.
C15_KeptCountNeverDecreases ==
    [][\A k \in Keys(StreamCounts) \cap Keys(StreamCounts') :
          Get(StreamCounts', k) >= Get(StreamCounts, k)]_vars

\* a prune step removed a key, and a key it kept was counted again later
C15_Witness ==
    /\ lastPrune.n > 0 /\ PrunedKeys # {}
    /\ \E k \in Keys(lastPrune.after) :
         Get(StreamCounts, k) > Get(lastPrune.after, k)


\* C16: for records that come grouped by date, the entry of a date in
\* top_users is written when the stream advances past the date (at the
\* end of the stream for the last date), only then, and an entry that is
\* there keeps its value.
C16_TopUserWrittenOnce ==
    [][(query = "q1_memory" /\ pc = "running" /\ Grouped(input')) =>
         LET left == dt.current_date
             closing == left # None /\ (dt'.current_date # left \/ pc' = "done")
         IN /\ \A d \in DOMAIN dt.top_users \cap DOMAIN dt'.top_users :
                  dt'.top_users[d] = dt.top_users[d]
            /\ (closing /\ left \in Keys(dt'.date_counts))
                  => left \in DOMAIN dt'.top_users
            /\ \A d \in DOMAIN dt'.top_users \ DOMAIN dt.top_users :
                  closing /\ d = left]_vars


\* C17: a call of the top-K query (get_top_results, get_top_mentions)
\* leaves the tracker as it was: date_counts, top_users,
\* current_user_counts, current_date and mention_counts do not change.
C17_TopKDoesNotMutate ==
    [][calls' # calls => (dt' = dt /\ mt' = mt)]_vars


\* C18: get_tweets on a path that ends in .zip and names no file raises the
\* FileNotFoundError of src.utils.exceptions, not a plain TweetRepositoryError
C18_MissingFileRaisesFileNotFound ==
    (query = "get_tweets" /\ file = "missing" /\ pc = "failed")
        => raised = "exceptions.FileNotFoundError"

\* C19: when the member is no valid JSON, the JsonParsingError raised inside
\* _process_json_stream reaches the caller of get_tweets as a JsonParsingError
C19_JsonParsingErrorReachesCaller ==
    (query = "get_tweets" /\ pc = "failed" /\ input # <<>>
        /\ input[Len(input)].field = "json_error")
        => raised = "JsonParsingError"

\* the events of an archive of valid records: every text event closes a
\* record whose user_name and created_at came before it, with a real date
RECURSIVE ValidRecords(_, _)
ValidRecords(evs, seen) ==
    IF evs = <<>> THEN TRUE
    ELSE LET ev == Head(evs)
         IN IF ev.field = "json_error" THEN FALSE
            ELSE IF ev.field = "created_at" /\ ev.value = BadDate THEN FALSE
            ELSE IF ev.field = "text"
            THEN {"user_name", "created_at"} \subseteq seen
                     /\ ValidRecords(Tail(evs), {})
            ELSE ValidRecords(Tail(evs), seen \cup ({ev.field} \ {"other"}))

RecordCount(evs) == Len(SelectSeq(evs, LAMBDA ev : ev.field = "text"))

\* C20: create_tweet on a dictionary with valid user_name, created_at and
\* text returns a Tweet and does not raise, so get_tweets yields one Tweet
\* per record of a valid archive
C20_OneTweetPerValidRecord ==
    (query = "get_tweets" /\ file = "ok" /\ ValidRecords(input, {}))
        => (pc # "failed" /\ Len(result) = RecordCount(input))


\* the keys of the last prune step whose count is the boundary count, the
\* M-th largest at the time of the prune
BoundaryKeys ==
    {k \in Keys(lastPrune.before) :
        Get(lastPrune.before, k) = MthLargest(lastPrune.before, lastPrune.m)}

\* C21: a prune step treats the keys whose count equals the boundary count
\* alike: it keeps all of them or drops all of them.
C21_BoundaryTiesUniform ==
    lastPrune.n > 0 =>
        \/ BoundaryKeys \subseteq Keys(lastPrune.after)
        \/ BoundaryKeys \cap Keys(lastPrune.after) = {}


\* the last record processed ended in a prune step
LastInsertPruned == lastPrune.n > 0 /\ lastPrune.at = Len(input)

\* C22: the prune is never executed on every insert: after an add_tweet
\* that executed _prune_data (a process_tweet that executed
\* _cleanup_memory), the next one does not execute it.
C22_NoConsecutivePrunes ==
    [][(query \in {"q1_memory", "q3_memory"} /\ LastInsertPruned)
          => lastPrune'.n = lastPrune.n]_vars


\* the step has taken tweets_processed of q2_memory to or past a multiple
\* of progress_period
PeriodPassed ==
    es'.tweets_processed \div progress_period
        > es.tweets_processed \div progress_period

\* the step has taken tweets_processed of the MentionTracker to a multiple
\* of cleanup_frequency with more than max_mentions mentions counted
CleanupDue ==
    /\ mt'.tweets_processed > mt.tweets_processed
    /\ mt'.tweets_processed % mt.cleanup_frequency = 0
    /\ Len(update(mt.mention_counts, input'[Len(input')])) > mt.max_mentions

\* C23: a prune is attempted after every K processed records for the whole
\* pass: q2_memory truncates its counter each time another progress_period
\* tweets have been processed, also after a batch was abandoned part-way,
\* and the MentionTracker cleans up at every multiple of cleanup_frequency.
C23_PruneEveryPeriod ==
    [][/\ (query = "q2_memory" /\ PeriodPassed)
            => lastPrune'.n = lastPrune.n + 1
       /\ (query = "q3_memory" /\ CleanupDue)
            => lastPrune'.n = lastPrune.n + 1]_vars


\* the occurrences of key k in chunk i
ChunkCount(i, k) ==
    Cardinality({j \in DOMAIN Flatten(chunks[i]) : Flatten(chunks[i])[j] = k})

RECURSIVE ChunksCount(_, _)
ChunksCount(S, k) ==
    IF S = {} THEN 0
    ELSE LET i == CHOOSE x \in S : TRUE
         IN ChunkCount(i, k) + ChunksCount(S \ {i}, k)

\* the chunks whose worker returned and whose result has been collected
Collected == DOMAIN chunks \ (pending \cup lost)

\* the count of key k in what has been folded: total_counter of q2_time,
\* the concatenated chunk_results of q3_time
Folded(k) ==
    IF query = "q2_time" THEN Get(fold.total_counter, k)
    ELSE SumOf(chunk_results, k)

FoldedOnce == \A k \in Tokens : Folded(k) = ChunksCount(Collected, k)

\* a step of q2_time or q3_time: the top-K is computed at the join, what
\* is folded is the collected chunks, and nothing changes after the return
JoinStep ==
    /\ pc' = "done" => (pending' = {} /\ FoldedOnce')
    /\ pc' = "folding" => FoldedOnce'
    /\ pc = "done" => UNCHANGED <<fold, chunk_results, pending, result>>

\* C24: q2_time and q3_time compute their top-K only after every chunk has
\* been collected (folded, or its error observed); nothing is folded after
\* the top-K was computed, and the counts of every chunk whose worker
\* returned are folded exactly once.
C24_JoinBeforeTopK ==
    [][(query \in {"q2_time", "q3_time"}) => JoinStep]_vars

\* q2_time has returned a list after its two or more futures completed,
\* one of them with an error
C24_Witness ==
    /\ Returned("q2_time")
    /\ Len(chunks) >= 2 /\ pending = {} /\ lost # {}
    /\ result # <<>>


\* the index in records where the group of the last record was opened
RECURSIVE GroupStart(_, _)
GroupStart(records, i) ==
    IF i > 1 /\ records[i - 1][1] = records[Len(records)][1]
    THEN GroupStart(records, i - 1)
    ELSE i

\* the tweets of the open group: the last record and the records of the
\* same date that come right before it
OpenGroup == SubSeq(input, GroupStart(input, Len(input)), Len(input))

UsersOf(records) == {records[i][2] : i \in DOMAIN records}
TweetsBy(records, u) == Cardinality({i \in DOMAIN records : records[i][2] = u})

\* C25: after add_tweet(date, user) with a date other than current_date,
\* current_user_counts is exactly {user: 1} and current_date is date; while
\* the date stays the same, current_user_counts holds the per-user counts
\* of the tweets of the open group and of no other date.
C25_GroupResetsUserCounts ==
    (query = "q1_memory" /\ input # <<>>) =>
        /\ dt.current_date = input[Len(input)][1]
        /\ Keys(dt.current_user_counts) = UsersOf(OpenGroup)
        /\ Len(dt.current_user_counts) = Cardinality(UsersOf(OpenGroup))
        /\ \A u \in Users :
             Get(dt.current_user_counts, u) = TweetsBy(OpenGroup, u)
        /\ Len(OpenGroup) = 1 =>
             dt.current_user_counts = << <<input[Len(input)][2], 1>> >>

\* a date was closed and the open group holds tweets of two users, by
\* users who also tweeted on the closed date
C25_Witness ==
    /\ query = "q1_memory" /\ Len(input) >= 4
    /\ input[1][1] # input[Len(input)][1]
    /\ Len(OpenGroup) = 3
    /\ Cardinality(UsersOf(OpenGroup)) = 2
    /\ input[1][2] \in UsersOf(OpenGroup)


\* C26: in DateTracker, after every add_tweet and every _prune_data, every
\* date that has a best user in top_users is counted in date_counts.
C26_TopUsersAreCounted ==
    query = "q1_memory" => DOMAIN dt.top_users \subseteq Keys(dt.date_counts)

\* a prune step has dropped a date that had a best user, and a date with a
\* best user is still tracked
C26_Witness ==
    /\ query = "q1_memory" /\ pc = "running" /\ lastPrune.n > 0
    /\ PrunedKeys # {}
    /\ \E i \in DOMAIN input : input[i][1] \in PrunedKeys
          /\ \E j \in DOMAIN input : j > i /\ input[j][1] # input[i][1]
    /\ DOMAIN dt.top_users # {}

=============================================================================
